---- MODULE Spec2Model ----
(***************************************************************************)
(* Model of the AI-assistance layer of nvroot/rep:                         *)
(*   src/js/modules/ai.js             the four streaming readers           *)
(*   src/js/modules/attack-surface.js the attack-surface batch analysis    *)
(*                                                                         *)
(* Text is a sequence of Unicode code points, the response body a sequence *)
(* of bytes (UTF-8).  JSON texts are written in a miniature syntax that    *)
(* keeps JSON's framing (braces, quoted strings, whitespace tolerance,     *)
(* "a proper prefix of a value is a syntax error"):                        *)
(*   {D"x"}    {"type":"content_block_delta","delta":{"text":"x"}}         *)
(*   {D}       {"type":"content_block_delta"}            (no delta)        *)
(*   {P}       {"type":"ping"}                           (another event)   *)
(*   {C"x"~"y"} {"candidates":[{"content":{"parts":                        *)
(*                 [{"text":"x"},{"inlineData":..},{"text":"y"}]}}]}       *)
(*   {C"x"|"y"} two candidates, with the parts "x" and the parts "y"       *)
(***************************************************************************)
EXTENDS Integers, Sequences, FiniteSets, TLC

VARIABLES
    \* one streaming call (ai.js)
    fn,          \* the streaming function that is running
    pc,          \* its position: "idle", "fetch", "reading", "returned", "rejected"
    responseOk,  \* response.ok of the fetch response
    script,      \* the lines the provider sends, in order
    wire,        \* the bytes of the response body: the lines, each with its newline
    errorBody,   \* the body of a response that is not ok
    pos,         \* how many bytes of wire reader.read() has delivered
    pending,     \* the TextDecoder's carried bytes of an incomplete character
    fullText,    \* let fullText
    updates,     \* the arguments of the onUpdate calls, in call order
    deltas,      \* history: the text fragments the reader recognized, in order
    reads,       \* history: whether reader.read() was ever called
    cut,         \* history: the lines (indices of script) a chunk boundary fell inside
    result,      \* the returned text, or the message of the thrown error
    \* one call of analyzeAttackSurface (attack-surface.js)
    localStorage,  \* the persisted key-value store
    apc,           \* its position: "idle", "awaiting", "returned", "rejected"
    requests,      \* the argument requests
    onProgress,    \* whether a progress callback was passed
    prompt,        \* the request summaries of the prompt that was built
    progress,      \* the events passed to onProgress, in call order
    fullResponse,  \* let fullResponse
    fetches,       \* history: the number of fetch calls
    outcome,       \* the returned mapping, or the message of the thrown error
    categories,    \* const categories: the records parseCategories returned
    \* streaming calls in flight at once
    calls,         \* the state of each call, its own fullText included
    \* the category cache
    written        \* history: the mapping last stored since the cache was
                   \* cleared, and the keys of the writes before it that it lacks

streamVars == <<fn, pc, responseOk, script, wire, errorBody, pos, pending,
                fullText, updates, deltas, reads, cut, result>>

callerVars == <<localStorage, apc, requests, onProgress, prompt, fetches, outcome,
                categories, calls, written>>

vars == <<streamVars, callerVars, progress, fullResponse>>

-----------------------------------------------------------------------------
(* Bounds *)

\* The largest number of bytes of a response body.
MaxBodyBytes == 28

\* The largest number of requests passed to analyzeAttackSurface.
MaxRequests == 51

\* The largest number of headers of a request whose summary is built.
MaxHeaders == 3

\* The largest number of elements of the array in a model reply.
MaxElements == 2

-----------------------------------------------------------------------------
(* Strings: code points *)

LF == 10

\* "data: "
DataPrefix == <<100, 97, 116, 97, 58, 32>>

\* "[DONE]"
DoneSentinel == <<91, 68, 79, 78, 69, 93>>

\* U+FFFD, what the decoder emits for a malformed sequence
ReplacementChar == 65533

\* space, \t, \n, \r: the white space of String.prototype.trim and of JSON
IsWhiteSpace(c) == c \in {32, 9, 10, 13}

RECURSIVE TrimStart(_)
TrimStart(s) ==
    IF s # <<>> /\ IsWhiteSpace(Head(s)) THEN TrimStart(Tail(s)) ELSE s

RECURSIVE TrimEnd(_)
TrimEnd(s) ==
    IF s # <<>> /\ IsWhiteSpace(s[Len(s)])
    THEN TrimEnd(SubSeq(s, 1, Len(s) - 1))
    ELSE s

\* String.prototype.trim
Trim(s) == TrimEnd(TrimStart(s))

\* String.prototype.startsWith
StartsWith(s, p) == Len(s) >= Len(p) /\ SubSeq(s, 1, Len(p)) = p

\* String.prototype.slice(n)
Slice(s, n) == SubSeq(s, n + 1, Len(s))

RECURSIVE SplitFrom(_, _, _, _)
SplitFrom(s, i, cur, out) ==
    IF i > Len(s) THEN Append(out, cur)
    ELSE IF s[i] = LF THEN SplitFrom(s, i + 1, <<>>, Append(out, cur))
    ELSE SplitFrom(s, i + 1, Append(cur, s[i]), out)

\* A split that sets the last piece aside as an unfinished line, and never
\* comes back to it.
SplitLinesDropLast(s) ==
    SubSeq(SplitFrom(s, 1, <<>>, <<>>), 1, Len(SplitFrom(s, 1, <<>>, <<>>)) - 1)

\* chunk.split('\n')
SplitLines(s) == SplitFrom(s, 1, <<>>, <<>>)

RECURSIVE Concat(_)
Concat(ss) == IF ss = <<>> THEN <<>> ELSE Head(ss) \o Concat(Tail(ss))

-----------------------------------------------------------------------------
(* TextDecoder (UTF-8), one- and two-byte sequences; every other byte is   *)
(* malformed and decodes to U+FFFD.                                        *)

IsLeadByte(b) == b >= 192 /\ b <= 223
IsContinuationByte(b) == b >= 128 /\ b <= 191

RECURSIVE DecodeFrom(_, _, _)
DecodeFrom(bytes, i, out) ==
    IF i > Len(bytes) THEN [text |-> out, pending |-> <<>>]
    ELSE IF bytes[i] < 128 THEN DecodeFrom(bytes, i + 1, Append(out, bytes[i]))
    ELSE IF ~IsLeadByte(bytes[i])
    THEN DecodeFrom(bytes, i + 1, Append(out, ReplacementChar))
    ELSE IF i = Len(bytes) THEN [text |-> out, pending |-> <<bytes[i]>>]
    ELSE IF IsContinuationByte(bytes[i + 1])
    THEN DecodeFrom(bytes, i + 2,
             Append(out, (bytes[i] - 192) * 64 + (bytes[i + 1] - 128)))
    ELSE DecodeFrom(bytes, i + 1, Append(out, ReplacementChar))

\* The same decoder with no state carried from one call to the next: an
\* incomplete character at the end of a chunk is emitted as U+FFFD.
RECURSIVE DecodeNoStreamFrom(_, _, _)
DecodeNoStreamFrom(bytes, i, out) ==
    IF i > Len(bytes) THEN [text |-> out, pending |-> <<>>]
    ELSE IF bytes[i] < 128
    THEN DecodeNoStreamFrom(bytes, i + 1, Append(out, bytes[i]))
    ELSE IF IsLeadByte(bytes[i]) /\ i < Len(bytes)
            /\ IsContinuationByte(bytes[i + 1])
    THEN DecodeNoStreamFrom(bytes, i + 2,
             Append(out, (bytes[i] - 192) * 64 + (bytes[i + 1] - 128)))
    ELSE DecodeNoStreamFrom(bytes, i + 1, Append(out, ReplacementChar))

DecodeNoStream(carried, value) == DecodeNoStreamFrom(value, 1, <<>>)

\* decoder.decode(value, { stream: true }): the text, and the bytes carried
\* to the next call.
Decode(carried, value) == DecodeFrom(carried \o value, 1, <<>>)

RECURSIVE Utf8Encode(_)
Utf8Encode(s) ==
    IF s = <<>> THEN <<>>
    ELSE IF Head(s) < 128 THEN <<Head(s)>> \o Utf8Encode(Tail(s))
    ELSE <<192 + (Head(s) \div 64), 128 + (Head(s) % 64)>> \o Utf8Encode(Tail(s))

-----------------------------------------------------------------------------
(* JSON.parse on the miniature syntax *)

SyntaxError == [ok |-> FALSE, isNull |-> FALSE, type |-> "", hasDelta |-> FALSE,
                text |-> <<>>, hasCandidates |-> FALSE, parts |-> <<>>]

\* A character that may stand unescaped inside a JSON string.
IsStringChar(c) == c >= 32 /\ c # 34 /\ c # 92

\* The parts of candidates[0] between {C and }: "text" is a part with a text
\* field, ~ a part without one (its entry is <<>>, as is the entry of "");
\* after | come the parts of the next candidate, which must be well formed.
RECURSIVE ParseParts(_, _, _, _, _)
ParseParts(t, i, inString, cur, out) ==
    IF i > Len(t) THEN [ok |-> ~inString, parts |-> out]
    ELSE IF inString
    THEN (IF t[i] = 34 THEN ParseParts(t, i + 1, FALSE, <<>>, Append(out, cur))
          ELSE IF IsStringChar(t[i])
          THEN ParseParts(t, i + 1, TRUE, Append(cur, t[i]), out)
          ELSE [ok |-> FALSE, parts |-> <<>>])
    ELSE IF t[i] = 126 THEN ParseParts(t, i + 1, FALSE, <<>>, Append(out, <<>>))
    ELSE IF t[i] = 34 THEN ParseParts(t, i + 1, TRUE, <<>>, out)
    ELSE IF t[i] = 124
    THEN [ok |-> ParseParts(SubSeq(t, i + 1, Len(t)), 1, FALSE, <<>>, <<>>).ok,
          parts |-> out]
    ELSE [ok |-> FALSE, parts |-> <<>>]

JSONparse(s) ==
    LET t == Trim(s)
        n == Len(t)
    IN  IF t = <<110, 117, 108, 108>>                            \* null
        THEN [SyntaxError EXCEPT !.ok = TRUE, !.isNull = TRUE]
        ELSE IF t = <<123, 80, 125>>                             \* {P}
        THEN [SyntaxError EXCEPT !.ok = TRUE, !.type = "ping"]
        ELSE IF t = <<123, 68, 125>>                             \* {D}
        THEN [SyntaxError EXCEPT !.ok = TRUE, !.type = "content_block_delta"]
        ELSE IF /\ n >= 5                                        \* {D"x"}
                /\ SubSeq(t, 1, 3) = <<123, 68, 34>>
                /\ SubSeq(t, n - 1, n) = <<34, 125>>
                /\ \A i \in 4..(n - 2) : IsStringChar(t[i])
        THEN [SyntaxError EXCEPT !.ok = TRUE, !.type = "content_block_delta",
                                 !.hasDelta = TRUE, !.text = SubSeq(t, 4, n - 2)]
        ELSE IF /\ n >= 3                                        \* {C"x"~"y"}
                /\ SubSeq(t, 1, 2) = <<123, 67>>
                /\ t[n] = 125
                /\ ParseParts(SubSeq(t, 3, n - 1), 1, FALSE, <<>>, <<>>).ok
        THEN [SyntaxError EXCEPT !.ok = TRUE, !.hasCandidates = TRUE,
                  !.parts = ParseParts(SubSeq(t, 3, n - 1), 1, FALSE, <<>>, <<>>).parts]
        ELSE SyntaxError

-----------------------------------------------------------------------------
(* The body of `for (const line of lines)`.  The try block yields the text *)
(* fragments it appends, in order, or the error it throws; the catch block *)
(* swallows the error.                                                     *)

NoFragments == [frags |-> <<>>, error |-> "none", caught |-> FALSE]

\* An error thrown before any fragment was appended.
Throw(e) == [NoFragments EXCEPT !.error = e]

\* try { const data = JSON.parse(dataStr);
\*       if (data.type === 'content_block_delta' && data.delta.text) {...} }
ClaudeTry(dataStr) ==
    LET data == JSONparse(dataStr)
    IN  IF ~data.ok THEN Throw("SyntaxError")
        ELSE IF data.isNull THEN Throw("TypeError")
        ELSE IF data.type # "content_block_delta" THEN NoFragments
        ELSE IF ~data.hasDelta THEN Throw("TypeError")
        ELSE IF data.text = <<>> THEN NoFragments            \* '' is falsy
        ELSE [NoFragments EXCEPT !.frags = <<data.text>>]

\* The text of the first part only.
TextPartsFirstOnly(parts) ==
    IF parts # <<>> /\ parts[1] # <<>> THEN <<parts[1]>> ELSE <<>>

\* The parts with a truthy text, in array order.
TextParts(parts) == SelectSeq(parts, LAMBDA p : p # <<>>)

\* try { const data = JSON.parse(dataStr);
\*       if (data.candidates && data.candidates[0]?.content?.parts) {...} }
GeminiTry(dataStr) ==
    LET data == JSONparse(dataStr)
    IN  IF ~data.ok THEN Throw("SyntaxError")
        ELSE IF data.isNull THEN Throw("TypeError")
        ELSE IF ~data.hasCandidates THEN NoFragments
        ELSE [NoFragments EXCEPT !.frags = TextParts(data.parts)]

\* A loop body with no catch block: the error leaves the loop.
Rethrow(attempt) == attempt

\* catch (e) { /* Ignore parse errors for incomplete chunks */ }
Catch(attempt) ==
    [attempt EXCEPT !.error = "none", !.caught = (attempt.error # "none")]

ClaudeLine(line) ==
    IF ~StartsWith(line, DataPrefix) THEN NoFragments
    ELSE IF Slice(line, 6) = DoneSentinel THEN NoFragments
    ELSE Catch(ClaudeTry(Slice(line, 6)))

GeminiLine(line) ==
    IF ~StartsWith(line, DataPrefix) THEN NoFragments
    ELSE IF Trim(Slice(line, 6)) = <<>> THEN NoFragments
    ELSE Catch(GeminiTry(Trim(Slice(line, 6))))

-----------------------------------------------------------------------------
(* The streaming functions *)

Fns == {"streamExplanationFromClaude", "streamExplanationFromClaudeWithSystem",
        "streamExplanationFromGemini", "streamExplanationFromGeminiWithSystem"}

IsClaude(f) == f \in {"streamExplanationFromClaude",
                      "streamExplanationFromClaudeWithSystem"}

\* What function f's loop body makes of one line.
LineOutcome(f, line) == IF IsClaude(f) THEN ClaudeLine(line) ELSE GeminiLine(line)

\* The fragments of one line.
LineFragments(f, line) == LineOutcome(f, line).frags

\* A progress event; the fields an event lacks are empty.
Event(status) == [status |-> status, count |-> 0, text |-> <<>>, categories |-> <<>>]

\* A callback that passes the text on and does not keep it.
OnUpdateNotKept(acc, text) ==
    [acc EXCEPT
       !.updates = Append(@, text),
       !.progress = IF acc.callback = "onProgress"
                    THEN Append(@, [Event("streaming") EXCEPT !.text = text])
                    ELSE @]

\* onUpdate(text).  acc.callback says which function the caller passed:
\* analyzeAttackSurface passes
\*   (text) => { fullResponse = text;
\*               if (onProgress) onProgress({ status: 'streaming', text: text }); }
OnUpdate(acc, text) ==
    [acc EXCEPT
       !.updates = Append(@, text),
       !.fullResponse = IF acc.callback = "none" THEN @ ELSE text,
       !.progress = IF acc.callback = "onProgress"
                    THEN Append(@, [Event("streaming") EXCEPT !.text = text])
                    ELSE @]

\* fullText = text; in place of fullText += text.
AppendDeltaOverwrite(acc, text) ==
    OnUpdate([acc EXCEPT !.fullText = text], text)

\* fullText += text; onUpdate(fullText);
AppendDelta(acc, text) ==
    OnUpdate([acc EXCEPT !.fullText = acc.fullText \o text], acc.fullText \o text)

RECURSIVE AppendAll(_, _)
AppendAll(acc, frags) ==
    IF frags = <<>> THEN acc
    ELSE AppendAll(AppendDelta(acc, Head(frags)), Tail(frags))

\* One pass of the loop body over one line; acc.deltas records the fragments
\* the line was recognized to carry.
DoLine(f, acc, line) ==
    LET lineOutcome == LineOutcome(f, line)
        after == AppendAll(acc, lineOutcome.frags)
    IN  [after EXCEPT !.deltas = acc.deltas \o lineOutcome.frags,
                      !.error = lineOutcome.error]

\* A loop whose try/catch encloses the whole for statement: the first line
\* that throws ends the pass over the chunk.
RECURSIVE ForEachLineUntilError(_, _, _)
ForEachLineUntilError(f, acc, lines) ==
    IF lines = <<>> \/ LineOutcome(f, Head(lines)).caught THEN acc
    ELSE ForEachLineUntilError(f, DoLine(f, acc, Head(lines)), Tail(lines))

\* A loop that leaves the chunk at the sentinel (break for continue): the
\* lines after a [DONE] line in the same chunk are not looked at.
RECURSIVE ForEachLineUntilDone(_, _, _)
ForEachLineUntilDone(f, acc, lines) ==
    IF lines = <<>> \/ Head(lines) = DataPrefix \o DoneSentinel THEN acc
    ELSE ForEachLineUntilDone(f, DoLine(f, acc, Head(lines)), Tail(lines))

\* for (const line of lines) { ... }: an error that leaves the body leaves
\* the loop.
RECURSIVE ForEachLine(_, _, _)
ForEachLine(f, acc, lines) ==
    IF lines = <<>> \/ acc.error # "none" THEN acc
    ELSE ForEachLine(f, DoLine(f, acc, Head(lines)), Tail(lines))

\* One iteration of while (true) after a read that was not done, on the
\* decoded chunk: split it at the newlines, run the loop body on every piece.
ProcessChunk(f, acc, chunk) == ForEachLine(f, acc, SplitLines(chunk))

\* errorData.error?.message || '<fallback>' on the error body of a response
\* that is not ok.  response.json() rejects when the body is not JSON, and
\* reading .error of null throws.
ErrorBodies == {"message", "emptyMessage", "noMessage", "noError", "null", "notJSON"}

Fallback(f) == IF IsClaude(f) THEN "Failed to communicate with Anthropic API"
               ELSE "Failed to communicate with Gemini API"

ErrorMessage(f, body) ==
    CASE body = "message"      -> "error.message"
      [] body = "emptyMessage" -> Fallback(f)
      [] body = "noMessage"    -> Fallback(f)
      [] body = "noError"      -> Fallback(f)
      [] body = "null"         -> "TypeError"
      [] body = "notJSON"      -> "SyntaxError"

-----------------------------------------------------------------------------
(* The response bodies the model draws from *)

\* data: {D"a"}   data: {D"é"}   data: [DONE]   data: {P}
\* data: {D"a     data:          (an empty payload)
ClaudeLines ==
    { DataPrefix \o <<123, 68, 34, 97, 34, 125>>,
      DataPrefix \o <<123, 68, 34, 233, 34, 125>>,
      DataPrefix \o DoneSentinel,
      DataPrefix \o <<123, 80, 125>>,
      DataPrefix \o <<123, 68, 34, 97>>,
      DataPrefix }

\* data: {C"a"}   data: {C"é""b"}   data: {C"é"~"""b"|"c"}   data: [DONE]
\* data: {C"a     data:
GeminiLines ==
    { DataPrefix \o <<123, 67, 34, 97, 34, 125>>,
      DataPrefix \o <<123, 67, 34, 233, 34, 34, 98, 34, 125>>,
      DataPrefix \o <<123, 67, 34, 233, 34, 126, 34, 34, 34, 98, 34, 124,
                       34, 99, 34, 125>>,
      DataPrefix \o DoneSentinel,
      DataPrefix \o <<123, 67, 34, 97>>,
      DataPrefix }

LinesOf(f) == IF IsClaude(f) THEN ClaudeLines ELSE GeminiLines

\* The lines of a body, each ended by a newline, as bytes.
RECURSIVE Body(_)
Body(lines) ==
    IF lines = <<>> THEN <<>>
    ELSE Utf8Encode(Head(lines) \o <<LF>>) \o Body(Tail(lines))

\* Every sequence of lines whose body fits the bound (no line is shorter than
\* "data: " and its newline).
Scripts(f) ==
    { s \in UNION { [1..n -> LinesOf(f)] :
                       n \in 0..(MaxBodyBytes \div (Len(DataPrefix) + 1)) } :
        Len(Body(s)) <= MaxBodyBytes }

\* The line (index of script) that byte p of the body belongs to.
LineAt(body, p) == 1 + Cardinality({i \in 1..(p - 1) : body[i] = LF})

\* The lines a chunk boundary after byte p falls inside: the boundary has a
\* byte of the same line's text on either side.
CutBy(body, p) ==
    IF p < Len(body) /\ body[p] # LF /\ body[p + 1] # LF
    THEN {LineAt(body, p)}
    ELSE {}

-----------------------------------------------------------------------------
(* The settings store (ai.js) *)

\* localStorage.getItem(key) || fallback: a missing item is "null".
GetItemOr(store, key, fallback) ==
    IF store[key] \in {"null", ""} THEN fallback ELSE store[key]

\* Settings that take whichever provider's key is stored.
getAISettingsAnyKey(store) ==
    LET key == GetItemOr(store, "gemini_api_key",
                         GetItemOr(store, "anthropic_api_key", ""))
    IN  IF GetItemOr(store, "ai_provider", "anthropic") = "gemini"
        THEN [provider |-> "gemini", apiKey |-> key,
              model |-> GetItemOr(store, "gemini_model", "gemini-flash-latest")]
        ELSE [provider |-> "anthropic", apiKey |-> key,
              model |-> GetItemOr(store, "anthropic_model",
                                  "claude-3-5-sonnet-20241022")]

\* Settings that hand back the stored provider name as it is.
getAISettingsStoredProvider(store) ==
    LET provider == GetItemOr(store, "ai_provider", "anthropic")
    IN  IF provider = "gemini"
        THEN [provider |-> provider,
              apiKey |-> GetItemOr(store, "gemini_api_key", ""),
              model |-> GetItemOr(store, "gemini_model", "gemini-flash-latest")]
        ELSE [provider |-> provider,
              apiKey |-> GetItemOr(store, "anthropic_api_key", ""),
              model |-> GetItemOr(store, "anthropic_model",
                                  "claude-3-5-sonnet-20241022")]

\* getAISettings()
getAISettings(store) ==
    IF GetItemOr(store, "ai_provider", "anthropic") = "gemini"
    THEN [provider |-> "gemini",
          apiKey |-> GetItemOr(store, "gemini_api_key", ""),
          model |-> GetItemOr(store, "gemini_model", "gemini-flash-latest")]
    ELSE [provider |-> "anthropic",
          apiKey |-> GetItemOr(store, "anthropic_api_key", ""),
          model |-> GetItemOr(store, "anthropic_model", "claude-3-5-sonnet-20241022")]

\* streamExplanationWithSystem(..., provider): the function it delegates to.
WithSystemFn(provider) ==
    IF provider = "gemini" THEN "streamExplanationFromGeminiWithSystem"
    ELSE "streamExplanationFromClaudeWithSystem"

-----------------------------------------------------------------------------
(* buildAnalysisPrompt (attack-surface.js) *)

\* String.prototype.toLowerCase on the letters A-Z
RECURSIVE ToLowerCase(_)
ToLowerCase(str) ==
    IF str = <<>> THEN <<>>
    ELSE <<IF Head(str) >= 65 /\ Head(str) <= 90 THEN Head(str) + 32 ELSE Head(str)>>
         \o ToLowerCase(Tail(str))

\* ['cookie', 'authorization', 'x-api-key']
DeniedHeaders ==
    { <<99, 111, 111, 107, 105, 101>>,
      <<97, 117, 116, 104, 111, 114, 105, 122, 97, 116, 105, 111, 110>>,
      <<120, 45, 97, 112, 105, 45, 107, 101, 121>> }

\* A filter that compares the name as written, without toLowerCase().
FilterHeadersCaseSensitive(headerNames) ==
    SelectSeq(headerNames, LAMBDA h : h \notin DeniedHeaders)

\* headerNames.filter(h => ![...].includes(h.toLowerCase()))
FilterHeaders(headerNames) ==
    SelectSeq(headerNames, LAMBDA h : ToLowerCase(h) \notin DeniedHeaders)

\* "http://"
Http == <<104, 116, 116, 112, 58, 47, 47>>

\* The text before the first c of s, or all of s.
Before(s, c) ==
    IF \E i \in 1..Len(s) : s[i] = c
    THEN SubSeq(s, 1, (CHOOSE i \in 1..Len(s) :
                          s[i] = c /\ \A k \in 1..(i - 1) : s[k] # c) - 1)
    ELSE s

\* The text after the first c of s, or nothing.
After(s, c) == SubSeq(s, Len(Before(s, c)) + 2, Len(s))

\* url.split('?')[0]
UrlPath(url) == Before(url, 63)

\* The names of the pairs of a query string, in order, one per pair,
\* repeated when the pair is; an empty pair is skipped.
RECURSIVE QueryKeys(_)
QueryKeys(query) ==
    IF query = <<>> THEN <<>>
    ELSE (IF Before(query, 38) = <<>> THEN <<>>
          ELSE <<Before(Before(query, 38), 61)>>)
         \o QueryKeys(After(query, 38))

\* try { params = Array.from(new URL(url).searchParams.keys()) } catch (e) {}
\* new URL throws on a url with no scheme and params stays []; the query is
\* what stands between the first '?' and the fragment.  Names here need no
\* percent-decoding.
SearchParamsKeys(url) ==
    IF ~StartsWith(url, Http) THEN <<>>
    ELSE QueryKeys(After(Before(url, 35), 63))

\* A summary whose path is the URL as it stands, query string included.
SummaryWithQuery(req, idx) ==
    [index |-> idx,
     method |-> req.method,
     path |-> req.url,
     params |-> SearchParamsKeys(req.url),
     headers |-> FilterHeaders(req.headers)]

\* The summary of request req at index idx.  A request is
\* [method, url, headers, headerValues, postData]: headers are the names of
\* its headers in order and headerValues their values; postData is its body.
Summary(req, idx) ==
    [index |-> idx,
     method |-> req.method,
     path |-> UrlPath(req.url),
     params |-> SearchParamsKeys(req.url),
     headers |-> FilterHeaders(req.headers)]

\* requests.map((req, idx) => {...}): the summaries the prompt embeds.
buildAnalysisPrompt(reqs) == [k \in 1..Len(reqs) |-> Summary(reqs[k], k - 1)]

-----------------------------------------------------------------------------
(* parseCategories (attack-surface.js).  The reply is written in a         *)
(* miniature syntax: ` is the fence marker ```, j the tag json, [ ] an     *)
(* array, { } an object whose members are a key letter (i index,           *)
(* c category, f confidence, r reasoning, e icon) and a value, a digit or  *)
(* a string in single quotes or n for null; an array element may also be   *)
(* n, and a lone digit is a JSON text that is a number.                    *)

Undefined == [kind |-> "undefined", n |-> 0, str |-> <<>>]
Null == [kind |-> "null", n |-> 0, str |-> <<>>]
Num(d) == [kind |-> "number", n |-> d, str |-> <<>>]
Str(x) == [kind |-> "string", n |-> 0, str |-> x]

Truthy(v) == (v.kind = "number" /\ v.n # 0) \/ (v.kind = "string" /\ v.str # <<>>)

\* v || fallback
OrElse(v, fallback) == IF Truthy(v) THEN v ELSE fallback

\* {} as an array element; isNull marks the element null instead.
EmptyObject == [isNull |-> FALSE, index |-> Undefined, category |-> Undefined,
                confidence |-> Undefined, reasoning |-> Undefined,
                icon |-> Undefined]

NullElement == [EmptyObject EXCEPT !.isNull = TRUE]

ParseFailure == [ok |-> FALSE, next |-> 0, obj |-> EmptyObject]

SetMember(obj, key, v) ==
    CASE key = 105 -> [obj EXCEPT !.index = v]
      [] key = 99  -> [obj EXCEPT !.category = v]
      [] key = 102 -> [obj EXCEPT !.confidence = v]
      [] key = 114 -> [obj EXCEPT !.reasoning = v]
      [] key = 101 -> [obj EXCEPT !.icon = v]

\* The members of an object from position i, up to its closing brace.
RECURSIVE ParseMembers(_, _, _)
ParseMembers(t, i, obj) ==
    IF i > Len(t) THEN ParseFailure
    ELSE IF t[i] = 125 THEN [ok |-> TRUE, next |-> i + 1, obj |-> obj]
    ELSE IF t[i] \notin {105, 99, 102, 114, 101} \/ i + 1 > Len(t) THEN ParseFailure
    ELSE IF t[i + 1] >= 48 /\ t[i + 1] <= 57
    THEN ParseMembers(t, i + 2, SetMember(obj, t[i], Num(t[i + 1] - 48)))
    ELSE IF t[i + 1] = 110
    THEN ParseMembers(t, i + 2, SetMember(obj, t[i], Null))
    ELSE IF t[i + 1] = 39 /\ \E q \in (i + 2)..Len(t) : t[q] = 39
    THEN LET q == CHOOSE q \in (i + 2)..Len(t) :
                     t[q] = 39 /\ \A r \in (i + 2)..(q - 1) : t[r] # 39
         IN  ParseMembers(t, q + 1, SetMember(obj, t[i], Str(SubSeq(t, i + 2, q - 1))))
    ELSE ParseFailure

\* The elements of an array from position i, up to its closing bracket,
\* which must end the text.
RECURSIVE ParseElements(_, _, _)
ParseElements(t, i, out) ==
    IF i > Len(t) THEN [ok |-> FALSE, elems |-> <<>>]
    ELSE IF t[i] = 93 THEN [ok |-> i = Len(t), elems |-> out]
    ELSE IF t[i] = 110 THEN ParseElements(t, i + 1, Append(out, NullElement))
    ELSE IF t[i] = 123 /\ ParseMembers(t, i + 1, EmptyObject).ok
    THEN ParseElements(t, ParseMembers(t, i + 1, EmptyObject).next,
                       Append(out, ParseMembers(t, i + 1, EmptyObject).obj))
    ELSE [ok |-> FALSE, elems |-> <<>>]

\* JSON.parse(jsonText) of a reply: whether it parses, whether the value is
\* an array, and the array's elements.
JSONparseReply(jsonText) ==
    LET t == Trim(jsonText)
    IN  IF t # <<>> /\ t[1] = 91
        THEN [ok |-> ParseElements(t, 2, <<>>).ok, isArray |-> TRUE,
              elems |-> ParseElements(t, 2, <<>>).elems]
        ELSE IF t # <<>> /\ t[1] = 123
        THEN [ok |-> ParseMembers(t, 2, EmptyObject).ok
                     /\ ParseMembers(t, 2, EmptyObject).next = Len(t) + 1,
              isArray |-> FALSE, elems |-> <<>>]
        ELSE IF Len(t) = 1 /\ t[1] >= 48 /\ t[1] <= 57
        THEN [ok |-> TRUE, isArray |-> FALSE, elems |-> <<>>]
        ELSE [ok |-> FALSE, isArray |-> FALSE, elems |-> <<>>]

\* jsonText.match(/```(?:json)?\s*([\s\S]*?)\s*```/): the first fence marker,
\* the tag if it follows, and the text up to the next marker, white space
\* at either end dropped; the trimmed text when there is no such pair.
StripFence(response) ==
    LET jsonText == Trim(response)
        marks == {i \in 1..Len(jsonText) : jsonText[i] = 96}
    IN  IF Cardinality(marks) < 2 THEN jsonText
        ELSE LET open == CHOOSE i \in marks : \A k \in marks : i <= k
                 close == CHOOSE i \in marks \ {open} :
                              \A k \in marks \ {open} : i <= k
                 from == IF open + 1 < close /\ jsonText[open + 1] = 106
                         THEN open + 2 ELSE open + 1
             IN  Trim(SubSeq(jsonText, from, close - 1))

\* The defaults: 'Uncategorized', 'low', 'No reasoning provided', U+2753
DefaultCategory == Str(<<85, 110, 99, 97, 116, 101, 103, 111, 114, 105, 122, 101, 100>>)
DefaultConfidence == Str(<<108, 111, 119>>)
DefaultReasoning ==
    Str(<<78, 111, 32, 114, 101, 97, 115, 111, 110, 105, 110, 103, 32,
          112, 114, 111, 118, 105, 100, 101, 100>>)
DefaultIcon == Str(<<10067>>)

\* cat => ({ index: cat.index, category: cat.category || 'Uncategorized', ... })
CategoryRecord(cat) ==
    [index |-> cat.index,
     category |-> OrElse(cat.category, DefaultCategory),
     confidence |-> OrElse(cat.confidence, DefaultConfidence),
     reasoning |-> OrElse(cat.reasoning, DefaultReasoning),
     icon |-> OrElse(cat.icon, DefaultIcon)]

\* The try block of parseCategories: the records it returns, or the error it
\* throws (JSON.parse's, 'Response is not an array', or the TypeError of
\* reading .index of null).
TryParseCategories(response) ==
    LET parsed == JSONparseReply(StripFence(response))
    IN  IF ~parsed.ok THEN [error |-> "SyntaxError", value |-> <<>>]
        ELSE IF ~parsed.isArray
        THEN [error |-> "Response is not an array", value |-> <<>>]
        ELSE IF \E k \in 1..Len(parsed.elems) : parsed.elems[k].isNull
        THEN [error |-> "TypeError", value |-> <<>>]
        ELSE [error |-> "none",
              value |-> [k \in 1..Len(parsed.elems) |-> CategoryRecord(parsed.elems[k])]]

\* A parseCategories with no catch block: the error reaches the caller.
ParseRethrow(attempt) == attempt

\* catch (error) { console.error(...); return []; }
ParseCatch(attempt) ==
    IF attempt.error = "none" THEN attempt ELSE [error |-> "none", value |-> <<>>]

\* parseCategories(response): what the call returns (value) or throws (error).
parseCategories(response) == ParseCatch(TryParseCategories(response))

\* The property key that a value used as an index becomes: String(value).
PropertyKey(v) ==
    CASE v.kind = "number" -> <<48 + v.n>>
      [] v.kind = "string" -> v.str
      [] OTHER -> <<117, 110, 100, 101, 102, 105, 110, 101, 100>>   \* "undefined"

\* categories.forEach(cat => { categoryMap[cat.index] = {...} }) from entry k on
RECURSIVE CategoryMapFrom(_, _, _)
CategoryMapFrom(records, k, map) ==
    IF k > Len(records) THEN map
    ELSE CategoryMapFrom(records, k + 1,
           [key \in DOMAIN map \cup {PropertyKey(records[k].index)} |->
              IF key = PropertyKey(records[k].index)
              THEN [category |-> records[k].category,
                    confidence |-> records[k].confidence,
                    reasoning |-> records[k].reasoning,
                    icon |-> records[k].icon]
              ELSE map[key]])

\* A mapping in which the first record that carries an index keeps its entry.
CategoryMapKeepFirst(records) ==
    CategoryMapFrom([k \in 1..Len(records) |-> records[Len(records) + 1 - k]],
                    1, <<>>)

\* const categoryMap = {}; categories.forEach(...)
CategoryMap(records) == CategoryMapFrom(records, 1, <<>>)

-----------------------------------------------------------------------------
(* State machine of one streaming call *)

\* 'repPlusAttackSurfaceCache'
CacheKey == "repPlusAttackSurfaceCache"

\* The cache item when nothing is stored under the key, and the item that
\* holds a text.
NoItem == [present |-> FALSE, text |-> <<>>]
Item(text) == [present |-> TRUE, text |-> text]

\* The empty store: getItem gives null for every settings key, and there is
\* no cache item.
NoStore == [key \in {"ai_provider", "anthropic_api_key", "anthropic_model",
                     "gemini_api_key", "gemini_model", CacheKey} |->
              IF key = CacheKey THEN NoItem ELSE "null"]

\* No mapping was stored since the cache was last cleared.
NothingWritten == [map |-> <<>>, dropped |-> {}]

\* No call of analyzeAttackSurface is under way.
CallerIdle ==
    /\ localStorage = NoStore
    /\ apc = "idle"
    /\ requests = <<>>
    /\ onProgress = FALSE
    /\ prompt = <<>>
    /\ progress = <<>>
    /\ fullResponse = <<>>
    /\ fetches = 1
    /\ outcome = "none"
    /\ categories = <<>>
    /\ calls = <<>>
    /\ written = NothingWritten

\* The stream reader's state before the response arrives.
StreamFresh ==
    /\ script = <<>>
    /\ wire = <<>>
    /\ responseOk = TRUE
    /\ errorBody = "none"
    /\ pos = 0
    /\ pending = <<>>
    /\ fullText = <<>>
    /\ updates = <<>>
    /\ deltas = <<>>
    /\ reads = FALSE
    /\ cut = {}
    /\ result = "none"

\* A streaming function was called and has issued its fetch.
Init ==
    /\ fn \in Fns
    /\ pc = "fetch"
    /\ StreamFresh
    /\ CallerIdle

\* The onUpdate that the running call was given.
Callback ==
    IF apc # "awaiting" THEN "none"
    ELSE IF onProgress THEN "onProgress" ELSE "fullResponse"

\* The replies to a categorization request: the deltas of each.
\*   [{i1c'A'}  ]      `[{i0}]`      no      (no delta)
Replies ==
    { << <<91, 123, 105, 49, 99, 39, 65, 39, 125>>, <<93>> >>,
      << <<96, 91, 123, 105, 48, 125, 93, 96>> >>,
      << <<110, 111>> >>,
      << >> }

\* A data line of function f that carries the one fragment text.
DeltaLine(f, text) ==
    DataPrefix \o <<123, IF IsClaude(f) THEN 68 ELSE 67, 34>> \o text \o <<34, 125>>

\* The bodies a response may have: any lines to a direct call, a reply to
\* the call that analyzeAttackSurface makes.
ResponseScripts ==
    IF apc = "awaiting"
    THEN { [k \in 1..Len(r) |-> DeltaLine(fn, r[k])] : r \in Replies }
    ELSE Scripts(fn)

\* await fetch(...) resolves with a response that is ok: getReader(),
\* new TextDecoder(), let fullText = ''.
FetchOk ==
    /\ pc = "fetch"
    /\ pc' = "reading"
    /\ responseOk' = TRUE
    /\ script' \in ResponseScripts
    /\ wire' = Body(script')
    /\ UNCHANGED <<fn, errorBody, pos, pending, fullText, updates, deltas, reads,
                   cut, result>>
    /\ UNCHANGED <<callerVars, progress, fullResponse>>

\* await fetch(...) resolves with a response that is not ok:
\* throw new Error(errorData.error?.message || '<fallback>').
FetchNotOk ==
    /\ pc = "fetch"
    /\ errorBody' \in ErrorBodies
    /\ result' = ErrorMessage(fn, errorBody')
    /\ pc' = "rejected"
    /\ responseOk' = FALSE
    /\ UNCHANGED <<fn, script, wire, pos, pending, fullText, updates, deltas,
                   reads, cut>>
    /\ UNCHANGED <<callerVars, progress, fullResponse>>

\* await fetch(...) rejects (the network fails): the error leaves the
\* function, which has no try around the fetch.  There is no response.
FetchRejects ==
    /\ pc = "fetch"
    /\ errorBody' = "noResponse"
    /\ result' = "Failed to fetch"
    /\ pc' = "rejected"
    /\ responseOk' = FALSE
    /\ UNCHANGED <<fn, script, wire, pos, pending, fullText, updates, deltas,
                   reads, cut>>
    /\ UNCHANGED <<callerVars, progress, fullResponse>>

\* reader.read() resolves with the next n bytes, and the loop body runs.
ReadChunk ==
    /\ pc = "reading"
    /\ pos < Len(wire)
    /\ \E n \in 1..(Len(wire) - pos) :
         LET value == SubSeq(wire, pos + 1, pos + n)
             decoded == Decode(pending, value)
             acc == ProcessChunk(fn,
                        [fullText |-> fullText, updates |-> updates,
                         deltas |-> deltas, error |-> "none",
                         callback |-> Callback, fullResponse |-> fullResponse,
                         progress |-> progress], decoded.text)
         IN  /\ pos' = pos + n
             /\ pending' = decoded.pending
             /\ fullText' = acc.fullText
             /\ updates' = acc.updates
             /\ deltas' = acc.deltas
             /\ fullResponse' = acc.fullResponse
             /\ progress' = acc.progress
             /\ cut' = cut \cup CutBy(wire, pos + n)
             /\ pc' = IF acc.error = "none" THEN "reading" ELSE "rejected"
             /\ result' = IF acc.error = "none" THEN result ELSE acc.error
    /\ reads' = TRUE
    /\ UNCHANGED <<fn, responseOk, script, wire, errorBody>>
    /\ UNCHANGED callerVars

\* reader.read() resolves with done: break; return fullText.
ReadDone ==
    /\ pc = "reading"
    /\ pos = Len(wire)
    /\ pc' = "returned"
    /\ result' = fullText
    /\ reads' = TRUE
    /\ UNCHANGED <<fn, responseOk, script, wire, errorBody, pos, pending,
                   fullText, updates, deltas, cut>>
    /\ UNCHANGED <<callerVars, progress, fullResponse>>

Next == FetchOk \/ FetchNotOk \/ FetchRejects \/ ReadChunk \/ ReadDone

Spec == Init /\ [][Next]_vars

\* A call of a function without and of one with a system prompt, one per
\* provider.
InitLive ==
    /\ Init
    /\ fn \in {"streamExplanationFromClaude", "streamExplanationFromGeminiWithSystem"}

\* A provider that answers, and a stream that delivers every chunk and then
\* reports completion: each await of the function is resolved in the end.
SpecLive ==
    /\ InitLive
    /\ [][Next]_vars
    /\ WF_vars(FetchOk \/ FetchNotOk \/ FetchRejects)
    /\ WF_vars(ReadChunk)
    /\ WF_vars(ReadDone)


-----------------------------------------------------------------------------
(* State machine of one call of analyzeAttackSurface *)

\* const batchSize = 50
BatchSize == 50

Min(a, b) == IF a < b THEN a ELSE b

\* A batch that is the whole input.
RequestBatchAll(reqs) == reqs

\* requests.slice(0, batchSize)
RequestBatch(reqs) == SubSeq(reqs, 1, Min(Len(reqs), BatchSize))

Providers == {"anthropic", "gemini"}

\* saveAISettings(provider, apiKey, model)
saveAISettings(store, provider, apiKey, model) ==
    IF provider = "gemini"
    THEN [store EXCEPT !["ai_provider"] = provider,
                       !["gemini_api_key"] = apiKey,
                       !["gemini_model"] = model]
    ELSE [store EXCEPT !["ai_provider"] = provider,
                       !["anthropic_api_key"] = apiKey,
                       !["anthropic_model"] = model]

\* "Accept"   "Cookie"
Accept == <<65, 99, 99, 101, 112, 116>>
Cookie == <<67, 111, 111, 107, 105, 101>>

\* The i-th captured request: http://h/00, http://h/01, ... with alternating
\* methods.
RequestAt(i) ==
    [method |-> IF i % 2 = 0 THEN "GET" ELSE "POST",
     url |-> Http \o <<104, 47, 48 + ((i \div 10) % 10), 48 + (i % 10)>>,
     headers |-> IF i % 3 = 0 THEN <<Cookie, Accept>> ELSE <<Accept>>,
     headerValues |-> IF i % 3 = 0 THEN << <<115>>, <<118>> >> ELSE << <<118>> >>,
     postData |-> IF i % 2 = 0 THEN <<>> ELSE <<98>>]

\* The numbers of requests a call is given: none, and those around batchSize.
RequestCounts == {0} \cup ((BatchSize - 1)..MaxRequests)

InitAnalyze ==
    /\ fn = "none"
    /\ pc = "idle"
    /\ StreamFresh
    /\ localStorage = NoStore
    /\ apc = "idle"
    /\ requests = <<>>
    /\ onProgress = FALSE
    /\ prompt = <<>>
    /\ progress = <<>>
    /\ fullResponse = <<>>
    /\ fetches = 0
    /\ outcome = "none"
    /\ categories = <<>>
    /\ calls = <<>>
    /\ written = NothingWritten

\* The user saves settings: a key or none, and the model the form offers.
SaveSettings ==
    /\ apc = "idle"
    /\ \E provider \in Providers, apiKey \in {"", "key"} :
         localStorage' = saveAISettings(localStorage, provider, apiKey, "model")
    /\ UNCHANGED <<streamVars, apc, requests, onProgress, prompt, fetches, outcome,
                   progress, fullResponse, categories, calls, written>>

\* analyzeAttackSurface(requests, onProgress) with no key for the provider:
\* throw new Error('AI API key not configured. Please set it in Settings.')
AnalyzeNoKey ==
    /\ apc = "idle"
    /\ getAISettings(localStorage).apiKey = ""
    /\ \E n \in RequestCounts : requests' = [i \in 1..n |-> RequestAt(i)]
    /\ onProgress' \in BOOLEAN
    /\ apc' = "rejected"
    /\ outcome' = "AI API key not configured. Please set it in Settings."
    /\ UNCHANGED <<streamVars, localStorage, prompt, fetches, progress, fullResponse,
                   categories, calls, written>>

\* analyzeAttackSurface(requests, onProgress) up to the await: the batch, the
\* prompt, the first two progress events, and the fetch that
\* streamExplanationWithSystem's delegate issues.
AnalyzeStart ==
    /\ apc = "idle"
    /\ getAISettings(localStorage).apiKey # ""
    /\ \E n \in RequestCounts : requests' = [i \in 1..n |-> RequestAt(i)]
    /\ onProgress' \in BOOLEAN
    /\ LET requestBatch == RequestBatch(requests')
       IN  /\ prompt' = buildAnalysisPrompt(requestBatch)
           /\ progress' =
                IF onProgress'
                THEN <<[Event("building_prompt") EXCEPT !.count = Len(requestBatch)],
                       [Event("analyzing") EXCEPT !.count = Len(requestBatch)]>>
                ELSE <<>>
    /\ fullResponse' = <<>>
    /\ fn' = WithSystemFn(getAISettings(localStorage).provider)
    /\ pc' = "fetch"
    /\ fetches' = fetches + 1
    /\ apc' = "awaiting"
    /\ UNCHANGED <<responseOk, script, wire, errorBody, pos, pending, fullText,
                   updates, deltas, reads, cut, result, localStorage, outcome,
                   categories, calls, written>>

\* The awaited call returned: the parsing event, parseCategories, the
\* mapping, the complete event, return categoryMap.
AnalyzeResume ==
    /\ apc = "awaiting"
    /\ pc = "returned"
    /\ LET parsed == parseCategories(fullResponse)
           categoryMap == CategoryMap(parsed.value)
           threw == parsed.error # "none"
       IN  /\ progress' =
                IF ~onProgress THEN progress
                ELSE IF threw
                THEN Append(progress, [Event("parsing") EXCEPT !.text = fullResponse])
                ELSE progress \o
                     <<[Event("parsing") EXCEPT !.text = fullResponse],
                       [Event("complete") EXCEPT !.categories = categoryMap]>>
           /\ categories' = parsed.value
           /\ outcome' = IF threw THEN parsed.error ELSE categoryMap
           /\ apc' = IF threw THEN "rejected" ELSE "returned"
    /\ UNCHANGED <<streamVars, localStorage, requests, onProgress, prompt, fetches,
                   fullResponse, calls, written>>

\* A caller that answers a failure of the awaited call by calling again.
AnalyzeRejectRetry ==
    /\ apc = "awaiting"
    /\ pc = "rejected"
    /\ pc' = "fetch"
    /\ fetches' = fetches + 1
    /\ UNCHANGED <<fn, responseOk, script, wire, errorBody, pos, pending, fullText,
                   updates, deltas, reads, cut, result, localStorage, apc, requests,
                   onProgress, prompt, outcome, progress, fullResponse, categories,
                   calls, written>>

\* The awaited call rejected: analyzeAttackSurface rejects with its error.
AnalyzeReject ==
    /\ apc = "awaiting"
    /\ pc = "rejected"
    /\ apc' = "rejected"
    /\ outcome' = result
    /\ UNCHANGED <<streamVars, localStorage, requests, onProgress, prompt, fetches,
                   progress, fullResponse, categories, calls, written>>

NextAnalyze ==
    \/ SaveSettings
    \/ AnalyzeNoKey
    \/ AnalyzeStart
    \/ FetchOk
    \/ FetchNotOk
    \/ FetchRejects
    \/ ReadChunk
    \/ ReadDone
    \/ AnalyzeResume
    \/ AnalyzeReject

SpecAnalyze == InitAnalyze /\ [][NextAnalyze]_vars

-----------------------------------------------------------------------------
(* The settings on their own: saveAISettings with whatever the caller      *)
(* passes, and getAISettings.                                              *)

\* The provider names, keys and models passed to saveAISettings.
ProviderNames == {"anthropic", "gemini", "openai", ""}
ApiKeys == {"", "key1", "key2"}
Models == {"", "model1", "model2"}

\* saveAISettings(provider, apiKey, model)
SaveAnySettings ==
    /\ apc = "idle"
    /\ \E provider \in ProviderNames, apiKey \in ApiKeys, model \in Models :
         localStorage' = saveAISettings(localStorage, provider, apiKey, model)
    /\ UNCHANGED <<streamVars, apc, requests, onProgress, prompt, fetches, outcome,
                   progress, fullResponse, categories, calls, written>>

\* const settings = getAISettings()
GetSettings ==
    /\ apc = "idle"
    /\ apc' = "got"
    /\ outcome' = getAISettings(localStorage)
    /\ UNCHANGED <<streamVars, localStorage, requests, onProgress, prompt, fetches,
                   progress, fullResponse, categories, calls, written>>

NextSettings == SaveAnySettings \/ GetSettings

SpecSettings == InitAnalyze /\ [][NextSettings]_vars

-----------------------------------------------------------------------------
(* buildAnalysisPrompt on its own *)

\* "Cookie"  "X-Api-Key"  "AUTHORIZATION"  "Accept"  "Set-Cookie"
HeaderNames ==
    { Cookie,
      <<88, 45, 65, 112, 105, 45, 75, 101, 121>>,
      <<65, 85, 84, 72, 79, 82, 73, 90, 65, 84, 73, 79, 78>>,
      Accept,
      <<83, 101, 116, 45, 67, 111, 111, 107, 105, 101>> }

HeaderLists == UNION { [1..n -> HeaderNames] : n \in 0..MaxHeaders }

\* http://h/p?a=1&a=2   http://h/p?a=1&b   /p?a=1   http://h/p
\* http://h/p?b=1&&a#c=2   http://h/p?a=3&a=4
Urls ==
    { Http \o <<104, 47, 112, 63, 97, 61, 49, 38, 97, 61, 50>>,
      Http \o <<104, 47, 112, 63, 97, 61, 51, 38, 97, 61, 52>>,
      Http \o <<104, 47, 112, 63, 97, 61, 49, 38, 98>>,
      <<47, 112, 63, 97, 61, 49>>,
      Http \o <<104, 47, 112>>,
      Http \o <<104, 47, 112, 63, 98, 61, 49, 38, 38, 97, 35, 99, 61, 50>> }

\* What a header value or a request body may hold:  "1"   "2"
Secrets == { <<49>>, <<50>> }

\* The request with the header names h, each with the value v, the URL u and
\* the body v.
RequestWith(h, u, v) ==
    [RequestAt(1) EXCEPT !.headers = h, !.url = u,
                         !.headerValues = [k \in 1..Len(h) |-> v],
                         !.postData = v]

\* A batch of one request, or of that request after another.
PromptBatches ==
    { <<RequestWith(h, u, v)>> : h \in HeaderLists, u \in Urls, v \in Secrets }
    \cup { <<RequestAt(0), RequestWith(h, u, v)>> :
               h \in HeaderLists, u \in Urls, v \in Secrets }

InitPrompt ==
    /\ fn = "none"
    /\ pc = "idle"
    /\ StreamFresh
    /\ localStorage = NoStore
    /\ apc = "idle"
    /\ requests \in PromptBatches
    /\ onProgress = FALSE
    /\ prompt = <<>>
    /\ progress = <<>>
    /\ fullResponse = <<>>
    /\ fetches = 0
    /\ outcome = "none"
    /\ categories = <<>>
    /\ calls = <<>>
    /\ written = NothingWritten

\* const prompt = buildAnalysisPrompt(requests)
BuildPrompt ==
    /\ apc = "idle"
    /\ apc' = "built"
    /\ prompt' = buildAnalysisPrompt(requests)
    /\ UNCHANGED <<streamVars, localStorage, requests, onProgress, fetches, outcome,
                   progress, fullResponse, categories, calls, written>>

NextPrompt == BuildPrompt

SpecPrompt == InitPrompt /\ [][NextPrompt]_vars

-----------------------------------------------------------------------------
(* analyzeAttackSurface from the return of the awaited call, on the replies *)
(* a model may give.                                                       *)

\* The objects of a reply:
\*   {i0}   {i1c'A'f'high'r'B'e'C'}   {i1c''f0rn}   {i'1'f'x'}   {r'`'}
ReplyObjects ==
    { [EmptyObject EXCEPT !.index = Num(0)],
      [EmptyObject EXCEPT !.index = Num(1), !.category = Str(<<65>>),
                          !.confidence = Str(<<104, 105, 103, 104>>),
                          !.reasoning = Str(<<66>>), !.icon = Str(<<67>>)],
      [EmptyObject EXCEPT !.index = Num(1), !.category = Str(<<>>),
                          !.confidence = Num(0), !.reasoning = Null],
      [EmptyObject EXCEPT !.index = Str(<<49>>), !.confidence = Str(<<120>>)],
      [EmptyObject EXCEPT !.reasoning = Str(<<96>>)] }

ReplyArrays == UNION { [1..n -> ReplyObjects] : n \in 0..MaxElements }

\* The JSON text of a value, a member, an object and an array, as the prompt
\* asks the model to write them.
RenderValue(v) ==
    CASE v.kind = "number" -> <<48 + v.n>>
      [] v.kind = "string" -> <<39>> \o v.str \o <<39>>
      [] v.kind = "null" -> <<110>>
      [] OTHER -> <<>>

RenderMember(key, v) == IF v = Undefined THEN <<>> ELSE <<key>> \o RenderValue(v)

RenderObject(obj) ==
    <<123>> \o RenderMember(105, obj.index) \o RenderMember(99, obj.category)
    \o RenderMember(102, obj.confidence) \o RenderMember(114, obj.reasoning)
    \o RenderMember(101, obj.icon) \o <<125>>

ReplyText(objs) ==
    <<91>> \o Concat([k \in 1..Len(objs) |-> RenderObject(objs[k])]) \o <<93>>

\* Each array with its text.
ReplyTable == { [objs |-> objs, text |-> ReplyText(objs)] : objs \in ReplyArrays }

\* JSON texts that are no array of objects:  {i0}   5   [n]   [{i0}n]
OtherJsonTexts ==
    { <<123, 105, 48, 125>>, <<53>>, <<91, 110, 93>>,
      <<91, 123, 105, 48, 125, 110, 93>> }

\* Texts that are not JSON:  no   [{i0}   [{i0}]x   and the empty text
NonJsonTexts ==
    { <<110, 111>>, <<91, 123, 105, 48, 125>>,
      <<91, 123, 105, 48, 125, 93, 120>>, <<>> }

\* ```J```   and   ```json J ```   (a blank where the reply has a line break)
Fence(text) == <<96>> \o text \o <<96>>
FenceTagged(text) == <<96, 106, 32>> \o text \o <<32, 96>>

\* no ```J```: prose before the fence
AfterProse(text) == <<110, 111, 32>> \o Fence(text)

ReplyTexts ==
    LET bare == { r.text : r \in ReplyTable } \cup OtherJsonTexts \cup NonJsonTexts
    IN  bare \cup { Fence(t) : t \in bare } \cup { FenceTagged(t) : t \in bare }
             \cup { AfterProse(t) : t \in bare }

\* streamExplanationWithSystem has returned the reply to analyzeAttackSurface,
\* which was called with one request and stands at its await.
InitParse ==
    /\ fn \in {WithSystemFn(p) : p \in Providers}
    /\ fullResponse \in ReplyTexts
    /\ onProgress \in BOOLEAN
    /\ pc = "returned"
    /\ responseOk = TRUE
    /\ script = (IF fullResponse = <<>> THEN <<>> ELSE <<DeltaLine(fn, fullResponse)>>)
    /\ wire = Body(script)
    /\ errorBody = "none"
    /\ pos = Len(wire)
    /\ pending = <<>>
    /\ fullText = fullResponse
    /\ updates = (IF fullResponse = <<>> THEN <<>> ELSE <<fullResponse>>)
    /\ deltas = updates
    /\ reads = TRUE
    /\ cut = {}
    /\ result = fullResponse
    /\ localStorage = saveAISettings(NoStore, IF IsClaude(fn) THEN "anthropic" ELSE "gemini",
                                     "key", "model")
    /\ apc = "awaiting"
    /\ requests = <<RequestAt(0)>>
    /\ prompt = buildAnalysisPrompt(requests)
    /\ progress =
         (IF ~onProgress THEN <<>>
          ELSE <<[Event("building_prompt") EXCEPT !.count = 1],
                 [Event("analyzing") EXCEPT !.count = 1]>>
               \o [k \in 1..Len(updates) |->
                     [Event("streaming") EXCEPT !.text = updates[k]]])
    /\ fetches = 1
    /\ outcome = "none"
    /\ categories = <<>>
    /\ calls = <<>>
    /\ written = NothingWritten

NextParse == AnalyzeResume

SpecParse == InitParse /\ [][NextParse]_vars

-----------------------------------------------------------------------------
(* A streaming call whose response has arrived with a body of valid data   *)
(* lines, the last one ended by a newline or not.                          *)

\* The lines whose payload is a JSON text.
ValidLinesOf(f) ==
    { line \in LinesOf(f) : JSONparse(Slice(line, Len(DataPrefix))).ok }

ValidScripts(f) == { s \in Scripts(f) : \A i \in 1..Len(s) : s[i] \in ValidLinesOf(f) }

\* The body, and the body less the newline of its last line.
Bodies(lines) ==
    IF lines = <<>> THEN {<<>>}
    ELSE {Body(lines), SubSeq(Body(lines), 1, Len(Body(lines)) - 1)}

InitWhole ==
    /\ fn \in Fns
    /\ pc = "reading"
    /\ responseOk = TRUE
    /\ script \in ValidScripts(fn)
    /\ wire \in Bodies(script)
    /\ errorBody = "none"
    /\ pos = 0
    /\ pending = <<>>
    /\ fullText = <<>>
    /\ updates = <<>>
    /\ deltas = <<>>
    /\ reads = FALSE
    /\ cut = {}
    /\ result = "none"
    /\ CallerIdle

NextWhole == ReadChunk \/ ReadDone

SpecWhole == InitWhole /\ [][NextWhole]_vars

-----------------------------------------------------------------------------
(* Two streaming calls in flight at once.  Each call of an async function  *)
(* has its own bindings of reader, decoder and fullText, and its caller's  *)
(* callback its own fullResponse; the event loop runs one loop iteration   *)
(* of one call at a time.                                                  *)

Callers == {1, 2}

\* One binding of fullText for the whole module, used by every call.
FullTextBindingShared(c) == 1

\* let fullText = '' inside the function: the call's own binding.
FullTextBinding(c) == c

\* The pairs of functions called: the same function twice, or one per provider.
FnPairs ==
    { <<"streamExplanationFromClaudeWithSystem", "streamExplanationFromClaudeWithSystem">>,
      <<"streamExplanationFromClaudeWithSystem", "streamExplanationFromGeminiWithSystem">> }

\* The body each provider sends:
\*   data: {D"a"}  data: {D"é"}        data: {C"é""b"}  data: {C"a"}
TwoScript(f) ==
    IF IsClaude(f)
    THEN << DataPrefix \o <<123, 68, 34, 97, 34, 125>>,
            DataPrefix \o <<123, 68, 34, 233, 34, 125>> >>
    ELSE << DataPrefix \o <<123, 67, 34, 233, 34, 34, 98, 34, 125>>,
            DataPrefix \o <<123, 67, 34, 97, 34, 125>> >>

\* A call that has issued its fetch.
FreshCall(f) ==
    [fn |-> f, pc |-> "fetch", script |-> <<>>, wire |-> <<>>, pos |-> 0,
     pending |-> <<>>, fullText |-> <<>>, updates |-> <<>>, deltas |-> <<>>,
     cut |-> {}, fullResponse |-> <<>>, result |-> "none"]

InitTwo ==
    /\ fn = "none"
    /\ pc = "idle"
    /\ StreamFresh
    /\ localStorage = NoStore
    /\ apc = "idle"
    /\ requests = <<>>
    /\ onProgress = FALSE
    /\ prompt = <<>>
    /\ progress = <<>>
    /\ fullResponse = <<>>
    /\ fetches = 2
    /\ outcome = "none"
    /\ categories = <<>>
    /\ \E pair \in FnPairs : calls = [c \in Callers |-> FreshCall(pair[c])]
    /\ written = NothingWritten

twoVars == <<streamVars, localStorage, apc, requests, onProgress, prompt, fetches,
             outcome, categories, progress, fullResponse, written>>

\* Call c's fetch resolves with an ok response.
TwoFetchOk(c) ==
    /\ calls[c].pc = "fetch"
    /\ calls' = [calls EXCEPT ![c].pc = "reading",
                              ![c].script = TwoScript(calls[c].fn),
                              ![c].wire = Body(TwoScript(calls[c].fn))]
    /\ UNCHANGED twoVars

\* Call c's reader.read() resolves with the next n bytes, and its loop body
\* runs, on the fullText that the call's binding holds.
TwoReadChunk(c) ==
    /\ calls[c].pc = "reading"
    /\ calls[c].pos < Len(calls[c].wire)
    /\ \E n \in 1..(Len(calls[c].wire) - calls[c].pos) :
         LET call == calls[c]
             value == SubSeq(call.wire, call.pos + 1, call.pos + n)
             decoded == Decode(call.pending, value)
             acc == ProcessChunk(call.fn,
                        [fullText |-> calls[FullTextBinding(c)].fullText,
                         updates |-> call.updates, deltas |-> call.deltas,
                         error |-> "none", callback |-> "fullResponse",
                         fullResponse |-> call.fullResponse, progress |-> <<>>],
                        decoded.text)
         IN  calls' = [calls EXCEPT
                         ![c].pos = call.pos + n,
                         ![c].pending = decoded.pending,
                         ![c].updates = acc.updates,
                         ![c].deltas = acc.deltas,
                         ![c].fullResponse = acc.fullResponse,
                         ![c].cut = call.cut \cup CutBy(call.wire, call.pos + n),
                         ![FullTextBinding(c)].fullText = acc.fullText]
    /\ UNCHANGED twoVars

\* Call c's reader.read() resolves with done: return fullText.
TwoReadDone(c) ==
    /\ calls[c].pc = "reading"
    /\ calls[c].pos = Len(calls[c].wire)
    /\ calls' = [calls EXCEPT ![c].pc = "returned",
                              ![c].result = calls[FullTextBinding(c)].fullText]
    /\ UNCHANGED twoVars

NextTwo == \E c \in Callers : TwoFetchOk(c) \/ TwoReadChunk(c) \/ TwoReadDone(c)

SpecTwo == InitTwo /\ [][NextTwo]_vars

-----------------------------------------------------------------------------
(* The category cache: cacheCategories, loadCachedCategories and           *)
(* clearCategoryCache over the one item 'repPlusAttackSurfaceCache'.       *)
(* A mapping is written as { entries }, an entry as 'key'{members}, with   *)
(* the members c, f, r and e of the reply syntax.                          *)

\* The keys of a mapping, one after the other.
RECURSIVE KeysInOrder(_)
KeysInOrder(keys) ==
    IF keys = {} THEN <<>>
    ELSE LET key == CHOOSE key \in keys : TRUE
         IN  <<key>> \o KeysInOrder(keys \ {key})

\* The text of one entry of a mapping.
StringifyEntry(key, entry) ==
    <<39>> \o key \o <<39, 123>> \o RenderMember(99, entry.category)
    \o RenderMember(102, entry.confidence) \o RenderMember(114, entry.reasoning)
    \o RenderMember(101, entry.icon) \o <<125>>

\* JSON.stringify(categories)
JSONstringifyMap(map) ==
    LET keys == KeysInOrder(DOMAIN map)
    IN  <<123>> \o Concat([k \in 1..Len(keys) |-> StringifyEntry(keys[k], map[keys[k]])])
        \o <<125>>

\* The entries of a mapping from position i, up to its closing brace, which
\* must end the text.
RECURSIVE ParseEntries(_, _, _)
ParseEntries(t, i, map) ==
    IF i > Len(t) THEN [ok |-> FALSE, map |-> <<>>]
    ELSE IF t[i] = 125 THEN [ok |-> i = Len(t), map |-> map]
    ELSE IF t[i] = 39 /\ \E q \in (i + 1)..Len(t) : t[q] = 39
    THEN LET q == CHOOSE q \in (i + 1)..Len(t) :
                     t[q] = 39 /\ \A r \in (i + 1)..(q - 1) : t[r] # 39
             members == ParseMembers(t, q + 2, EmptyObject)
         IN  IF q + 1 <= Len(t) /\ t[q + 1] = 123 /\ members.ok
             THEN ParseEntries(t, members.next,
                    [key \in DOMAIN map \cup {SubSeq(t, i + 1, q - 1)} |->
                       IF key = SubSeq(t, i + 1, q - 1)
                       THEN [category |-> members.obj.category,
                             confidence |-> members.obj.confidence,
                             reasoning |-> members.obj.reasoning,
                             icon |-> members.obj.icon]
                       ELSE map[key]])
             ELSE [ok |-> FALSE, map |-> <<>>]
    ELSE [ok |-> FALSE, map |-> <<>>]

\* JSON.parse(cached): whether the text parses, and the mapping it holds.
JSONparseMap(t) ==
    IF Len(t) >= 2 /\ t[1] = 123 THEN ParseEntries(t, 2, <<>>)
    ELSE [ok |-> FALSE, map |-> <<>>]

\* A cacheCategories that adds the new entries to the cached ones.
cacheCategoriesMerge(store, map, stored) ==
    LET cached == IF store[CacheKey].present /\ JSONparseMap(store[CacheKey].text).ok
                  THEN JSONparseMap(store[CacheKey].text).map
                  ELSE <<>>
        merged == [key \in DOMAIN cached \cup DOMAIN map |->
                     IF key \in DOMAIN map THEN map[key] ELSE cached[key]]
    IN  IF stored THEN [store EXCEPT ![CacheKey] = Item(JSONstringifyMap(merged))]
        ELSE store

\* cacheCategories(categories): setItem replaces the item, or throws (the
\* quota is exceeded, stored = FALSE) and the catch block leaves the store
\* as it was.
cacheCategories(store, map, stored) ==
    IF stored THEN [store EXCEPT ![CacheKey] = Item(JSONstringifyMap(map))]
    ELSE store

\* loadCachedCategories(): cached ? JSON.parse(cached) : {}, and {} from the
\* catch block.
loadCachedCategories(store) ==
    LET cached == store[CacheKey]
    IN  IF ~cached.present \/ cached.text = <<>> THEN <<>>
        ELSE IF JSONparseMap(cached.text).ok THEN JSONparseMap(cached.text).map
        ELSE <<>>

\* clearCategoryCache(): removeItem
clearCategoryCache(store) == [store EXCEPT ![CacheKey] = NoItem]

\* The replies whose mappings the analyses hand to cacheCategories: no
\* element, index 0, index 1, indices 0 and 1, and an element with no index.
CacheReplies ==
    LET element(index, category) ==
            [EmptyObject EXCEPT !.index = index, !.category = category]
    IN  { ReplyText(<<>>),
          ReplyText(<<element(Num(0), Str(<<65>>))>>),
          ReplyText(<<element(Num(1), Str(<<66>>))>>),
          ReplyText(<<element(Num(0), Str(<<67>>)), element(Num(1), Str(<<65>>))>>),
          ReplyText(<<element(Undefined, Str(<<66>>))>>) }

\* return categoryMap, of each of those replies
CacheMappings == { CategoryMap(parseCategories(reply).value) : reply \in CacheReplies }

\* A caller caches the mapping of an analysis that finished; the write is
\* stored, or the quota is exceeded.
CacheCategories ==
    /\ \E map \in CacheMappings, stored \in BOOLEAN :
         /\ localStorage' = cacheCategories(localStorage, map, stored)
         /\ apc' = IF stored THEN "cached" ELSE "cacheFailed"
         /\ written' = IF stored
                       THEN [map |-> map,
                             dropped |-> (written.dropped \cup DOMAIN written.map)
                                           \ DOMAIN map]
                       ELSE written
    /\ UNCHANGED <<streamVars, requests, onProgress, prompt, fetches, outcome,
                   progress, fullResponse, categories, calls>>

\* A caller clears the cache.
ClearCategoryCache ==
    /\ localStorage' = clearCategoryCache(localStorage)
    /\ apc' = "cleared"
    /\ written' = NothingWritten
    /\ UNCHANGED <<streamVars, requests, onProgress, prompt, fetches, outcome,
                   progress, fullResponse, categories, calls>>

\* A caller loads the cache.
LoadCachedCategories ==
    /\ outcome' = loadCachedCategories(localStorage)
    /\ apc' = "loaded"
    /\ UNCHANGED <<streamVars, localStorage, requests, onProgress, prompt, fetches,
                   progress, fullResponse, categories, calls, written>>

NextCache == CacheCategories \/ ClearCategoryCache \/ LoadCachedCategories

SpecCache == InitAnalyze /\ [][NextCache]_vars

-----------------------------------------------------------------------------
(* Properties of the streaming functions *)

IsDataLine(line) == StartsWith(line, DataPrefix)

\* A data line whose payload is a JSON text.
ValidDataLine(line) == IsDataLine(line) /\ JSONparse(Slice(line, 6)).ok

\* A data line whose payload is neither empty, nor the sentinel, nor JSON.
MalformedLine(line) ==
    /\ IsDataLine(line)
    /\ Slice(line, 6) \notin {<<>>, DoneSentinel}
    /\ ~JSONparse(Slice(line, 6)).ok

\* A line that is empty, or a data line with the sentinel or nothing as payload.
QuietLine(line) ==
    line = <<>> \/ (IsDataLine(line) /\ Slice(line, 6) \in {<<>>, DoneSentinel})

\* The fragments that the lines carry, in order, for function f.
RECURSIVE AllFragments(_, _)
AllFragments(f, lines) ==
    IF lines = <<>> THEN <<>>
    ELSE LineFragments(f, Head(lines)) \o AllFragments(f, Tail(lines))

\* The fragments of the well-formed lines that no chunk boundary fell inside.
RECURSIVE WholeFragments(_, _, _, _)
WholeFragments(f, lines, i, cutLines) ==
    IF i > Len(lines) THEN <<>>
    ELSE (IF i \in cutLines \/ MalformedLine(lines[i]) THEN <<>>
          ELSE LineFragments(f, lines[i]))
         \o WholeFragments(f, lines, i + 1, cutLines)

\* What the call returns when the whole body arrives as one chunk.
OneChunkText(f, body) ==
    ProcessChunk(f, [fullText |-> <<>>, updates |-> <<>>, deltas |-> <<>>,
                     error |-> "none", callback |-> "none",
                     fullResponse |-> <<>>, progress |-> <<>>],
                 Decode(<<>>, body).text).fullText

\* C1: when every line of the body is a valid data line, the returned text is
\* the concatenation, in arrival order, of the fragments the lines carry,
\* wherever the chunk boundaries fall.
C1_ReturnsAllFragments ==
    (pc = "returned" /\ \A i \in 1..Len(script) : ValidDataLine(script[i]))
        => result = Concat(AllFragments(fn, script))

\* C2: the returned text is the same for every cutting of the body into
\* chunks as for its delivery as one chunk.
C2_ChunkingInvariance ==
    pc = "returned" => result = OneChunkText(fn, wire)

\* C3: onUpdate is called once per recognized, non-empty delta; the k-th
\* argument is the concatenation of the first k deltas (so each extends the
\* one before); the returned text is the last argument, or empty.
C3_UpdatesAreCumulative ==
    /\ Len(updates) = Len(deltas)
    /\ \A k \in 1..Len(deltas) : deltas[k] # <<>>
    /\ \A k \in 1..Len(updates) :
         /\ k <= Len(deltas)
         /\ updates[k] = Concat(SubSeq(deltas, 1, k))
    /\ pc = "returned" =>
         result = (IF updates = <<>> THEN <<>> ELSE updates[Len(updates)])

C3_Witness ==
    /\ pc = "returned"
    /\ Len(updates) >= 2
    /\ deltas[1] # deltas[2]
    /\ result = deltas[1] \o deltas[2]

\* C4: a data line with malformed or incomplete JSON adds nothing, calls
\* nothing and raises nothing, and the well-formed lines that arrive whole,
\* those after it included, add their fragments: no call with an ok response
\* is rejected, and the returned text and the number of onUpdate calls are
\* those of the well-formed lines no chunk boundary fell inside.
C4_MalformedLineIsSkipped ==
    /\ pc = "rejected" => ~responseOk
    /\ pc = "returned" =>
         /\ result = Concat(WholeFragments(fn, script, 1, cut))
         /\ Len(updates) = Len(WholeFragments(fn, script, 1, cut))

C4_Witness ==
    /\ pc = "returned"
    /\ \E i, j \in 1..Len(script) :
         /\ i < j
         /\ MalformedLine(script[i])
         /\ i \notin cut
         /\ j \notin cut
         /\ LineFragments(fn, script[j]) # <<>>
    /\ result # <<>>

\* The pieces of the chunk that a step from pos to newPos delivers.
Pieces(carried, body, from, to) ==
    SplitLines(Decode(carried, SubSeq(body, from + 1, to)).text)

\* C5: a line whose payload is the sentinel [DONE], or empty, adds no
\* fragment, calls nothing and raises nothing: every chunk changes fullText
\* and the onUpdate calls exactly as its other lines alone would.
C5_SentinelAddsNothing ==
    [][(pc = "reading" /\ pos' > pos) =>
          LET loud == SelectSeq(Pieces(pending, wire, pos, pos'),
                                LAMBDA line : ~QuietLine(line))
          IN  /\ pc' = "reading"
              /\ fullText' = fullText \o Concat(AllFragments(fn, loud))
              /\ Len(updates') = Len(updates) + Len(AllFragments(fn, loud))]_vars

C5_Witness ==
    /\ pc = "returned"
    /\ ~IsClaude(fn)
    /\ \E i, j \in 1..Len(script) :
         /\ script[i] = DataPrefix \o DoneSentinel
         /\ script[j] = DataPrefix
         /\ i \notin cut
         /\ j \notin cut
    /\ updates = <<>>

\* C6: a response that is not ok rejects the call with the error body's
\* error.message when present and the provider's fallback string otherwise,
\* before the body stream is read or onUpdate is called.
C6_NotOkRejectsWithMessageOrFallback ==
    (pc = "rejected" /\ ~responseOk /\ errorBody # "noResponse") =>
        /\ result = (IF errorBody = "message" THEN "error.message"
                     ELSE Fallback(fn))
        /\ ~reads
        /\ updates = <<>>

-----------------------------------------------------------------------------
(* Properties of analyzeAttackSurface and buildAnalysisPrompt *)

\* The key stored for the provider that the store selects is absent or empty.
ActiveKeyMissing(store) ==
    IF store["ai_provider"] = "gemini"
    THEN store["gemini_api_key"] \in {"null", ""}
    ELSE store["anthropic_api_key"] \in {"null", ""}

\* C7: when the key stored for the active provider is empty or absent, a
\* call of analyzeAttackSurface fails with the configuration error and
\* attempts no network call, whatever is stored for the other provider.
C7_NoKeyNoCall ==
    (apc # "idle" /\ ActiveKeyMissing(localStorage)) =>
        /\ apc = "rejected"
        /\ outcome = "AI API key not configured. Please set it in Settings."
        /\ fetches = 0
        /\ pc = "idle"

C7_Witness ==
    /\ apc = "rejected"
    /\ localStorage["ai_provider"] = "anthropic"
    /\ localStorage["anthropic_api_key"] = ""
    /\ localStorage["gemini_api_key"] = "key"
    /\ fetches = 0

\* C8: a call given N requests builds its prompt from the first min(N, 50),
\* in their order (indices 0..min(N, 50)-1), reports that count in its
\* progress events and issues one call only.
C8_FirstFiftyOnly ==
    apc \in {"awaiting", "returned"} =>
        /\ Len(prompt) = (IF Len(requests) < 50 THEN Len(requests) ELSE 50)
        /\ \A k \in 1..Len(prompt) :
             /\ prompt[k].index = k - 1
             /\ prompt[k].method = requests[k].method
             /\ prompt[k].path = requests[k].url
             /\ prompt[k].params = <<>>
        /\ onProgress =>
             /\ progress[1].count = Len(prompt)
             /\ progress[2].count = Len(prompt)
        /\ fetches = 1

C8_Witness ==
    /\ apc = "returned"
    /\ onProgress
    /\ Len(requests) = 51
    /\ Len(prompt) = 50
    /\ progress[1].count = 50

\* The name is on the deny-list, letter case aside.
IsDenied(name) ==
    \E d \in DeniedHeaders :
        /\ Len(d) = Len(name)
        /\ \A i \in 1..Len(d) : name[i] = d[i] \/ name[i] + 32 = d[i]

\* C9: the headers of each summary are the request's header names in their
\* order, less exactly those that match cookie, authorization or x-api-key
\* case-insensitively.
C9_HeadersRedacted ==
    apc = "built" =>
        \A k \in 1..Len(requests) :
            /\ prompt[k].headers =
                 SelectSeq(requests[k].headers, LAMBDA h : ~IsDenied(h))
            /\ \A i \in 1..Len(prompt[k].headers) : ~IsDenied(prompt[k].headers[i])

C9_Witness ==
    /\ apc = "built"
    /\ requests[1].headers =
         <<Cookie, <<88, 45, 65, 112, 105, 45, 75, 101, 121>>, Accept>>
    /\ prompt[1].headers = <<Accept>>

\* C10: a successful run with a progress callback emits building_prompt,
\* analyzing, one streaming event per text delta with the cumulative text,
\* parsing with the text of the last streaming event (empty if none), and
\* complete, last, with the mapping the call returns.
C10_ProgressOrder ==
    (apc = "returned" /\ onProgress) =>
        LET n == Len(progress)
        IN  /\ n = Len(deltas) + 4
            /\ progress[1].status = "building_prompt"
            /\ progress[2].status = "analyzing"
            /\ \A k \in 3..(n - 2) :
                 /\ progress[k].status = "streaming"
                 /\ progress[k].text = Concat(SubSeq(deltas, 1, k - 2))
            /\ progress[n - 1].status = "parsing"
            /\ progress[n - 1].text =
                 (IF n = 4 THEN <<>> ELSE progress[n - 2].text)
            /\ progress[n].status = "complete"
            /\ progress[n].categories = outcome

C10_Witness ==
    /\ apc = "returned"
    /\ onProgress
    /\ Len(progress) = 6
    /\ progress[3].text # progress[4].text
    /\ DOMAIN outcome = {<<49>>}
    /\ outcome[<<49>>].category = Str(<<65>>)

-----------------------------------------------------------------------------
(* Properties of parseCategories and of the returned mapping *)

\* The value is missing.
IsMissing(v) == v = Undefined

Uncategorized == Str(<<85, 110, 99, 97, 116, 101, 103, 111, 114, 105, 122, 101, 100>>)
Low == Str(<<108, 111, 119>>)
NoReasoningProvided ==
    Str(<<78, 111, 32, 114, 101, 97, 115, 111, 110, 105, 110, 103, 32,
          112, 114, 111, 118, 105, 100, 101, 100>>)
QuestionMark == Str(<<10067>>)

\* The record expected of an object when the fields that Replaced(_) selects
\* take their defaults and the others are kept.
ExpectedRecord(obj, Replaced(_)) ==
    [index |-> obj.index,
     category |-> IF Replaced(obj.category) THEN Uncategorized ELSE obj.category,
     confidence |-> IF Replaced(obj.confidence) THEN Low ELSE obj.confidence,
     reasoning |-> IF Replaced(obj.reasoning) THEN NoReasoningProvided
                   ELSE obj.reasoning,
     icon |-> IF Replaced(obj.icon) THEN QuestionMark ELSE obj.icon]

\* C11: on a reply that is a JSON array of objects, the records
\* carry each element's index unchanged, the default for each missing field,
\* and every field that is present as given.
C11_PresentFieldsKept ==
    apc = "returned" =>
        \A r \in ReplyTable :
            fullResponse = r.text =>
                /\ Len(categories) = Len(r.objs)
                /\ \A k \in 1..Len(r.objs) :
                     categories[k] = ExpectedRecord(r.objs[k], IsMissing)

\* C12: a JSON text wrapped in one code fence, with or without the json
\* tag, is parsed to the same records as the text unwrapped.
C12_FenceIsTransparent ==
    apc = "returned" =>
        \A t \in { r.text : r \in ReplyTable } \cup OtherJsonTexts :
            fullResponse \in {Fence(t), FenceTagged(t)} =>
                categories = parseCategories(t).value

\* The texts that are not JSON, or are JSON but no array, bare or fenced.
NotAnArrayTexts ==
    LET bare == NonJsonTexts \cup {<<123, 105, 48, 125>>, <<53>>}
    IN  bare \cup { Fence(t) : t \in bare } \cup { FenceTagged(t) : t \in bare }
             \cup { AfterProse(t) : t \in bare }

\* C13: parseCategories never raises, and on a text that after fence
\* stripping is not JSON, or is JSON that is not an array, it returns the
\* empty collection (and the call returns the empty mapping).
C13_NeverRaises ==
    /\ apc # "rejected"
    /\ (apc = "returned" /\ fullResponse \in NotAnArrayTexts) =>
          /\ categories = <<>>
          /\ DOMAIN outcome = {}

C13_Witness ==
    /\ apc = "returned"
    /\ fullResponse = FenceTagged(<<91, 123, 105, 48, 125>>)
    /\ categories = <<>>

\* The property key under which a record is stored.
KeyOf(record) == PropertyKey(record.index)

\* C14: the mapping has one entry per distinct index of the records, keyed
\* by that index (as a property key); each value holds the four fields
\* category, confidence, reasoning and icon and no others, taken from the
\* last record in array order that carries the index.
C14_OneEntryPerIndex ==
    apc = "returned" =>
        /\ DOMAIN outcome = { KeyOf(categories[k]) : k \in 1..Len(categories) }
        /\ \A key \in DOMAIN outcome :
             LET last == CHOOSE k \in 1..Len(categories) :
                             /\ KeyOf(categories[k]) = key
                             /\ \A m \in (k + 1)..Len(categories) :
                                  KeyOf(categories[m]) # key
             IN  /\ DOMAIN outcome[key] =
                      {"category", "confidence", "reasoning", "icon"}
                 /\ outcome[key].category = categories[last].category
                 /\ outcome[key].confidence = categories[last].confidence
                 /\ outcome[key].reasoning = categories[last].reasoning
                 /\ outcome[key].icon = categories[last].icon

C14_Witness ==
    /\ apc = "returned"
    /\ Len(categories) = 2
    /\ categories[1].index = Num(1)
    /\ categories[2].index = Num(1)
    /\ categories[1].category = Str(<<65>>)
    /\ categories[2].category = Uncategorized
    /\ DOMAIN outcome = {<<49>>}
    /\ outcome[<<49>>].category = Uncategorized

Confidences ==
    { Str(<<104, 105, 103, 104>>), Str(<<109, 101, 100, 105, 117, 109>>), Low }

\* C20: every record, and so every value of the returned mapping, has a
\* confidence that is high, medium or low, whatever the reply held.
C20_ConfidenceIsEnum ==
    apc = "returned" =>
        /\ \A k \in 1..Len(categories) : categories[k].confidence \in Confidences
        /\ \A key \in DOMAIN outcome : outcome[key].confidence \in Confidences

-----------------------------------------------------------------------------
(* Properties of the prompt's parameter list *)

\* C19: the parameter list of each summary holds every query-parameter name
\* of the request's URL at most once, also when the URL repeats it.
C19_ParamsAreDistinct ==
    apc = "built" =>
        \A k \in 1..Len(prompt) :
            \A i, j \in 1..Len(prompt[k].params) :
                i # j => prompt[k].params[i] # prompt[k].params[j]

-----------------------------------------------------------------------------
(* Properties of a failed analysis *)

\* C16: a failure of the provider call (the fetch rejects, or its response
\* is not ok) is terminal and surfaces once: analyzeAttackSurface issues one
\* HTTP request only, rejects with the error the call failed with, and
\* emits no parsing or complete event.
C16_FailureIsTerminal ==
    /\ fetches <= 1
    /\ pc = "rejected" => apc \in {"awaiting", "rejected"}
    /\ (apc = "rejected" /\ fetches = 1) =>
          /\ pc = "rejected"
          /\ outcome = result
          /\ \A k \in 1..Len(progress) :
               progress[k].status \in {"building_prompt", "analyzing"}

C16_Witness ==
    /\ apc = "rejected"
    /\ onProgress
    /\ errorBody = "noResponse"
    /\ outcome = "Failed to fetch"
    /\ Len(progress) = 2

-----------------------------------------------------------------------------
(* Properties of the Gemini readers *)

\* data: {C"é"~"""b"|"c"}: the first candidate has the parts "é", one with
\* no text, "" and "b"; a second candidate has the part "c".
ManyPartsLine ==
    DataPrefix \o <<123, 67, 34, 233, 34, 126, 34, 34, 34, 98, 34, 124,
                     34, 99, 34, 125>>

\* The texts of the parts of the first candidate of each Gemini line.
PartTexts(line) ==
    CASE line = DataPrefix \o <<123, 67, 34, 97, 34, 125>> -> << <<97>> >>
      [] line = DataPrefix \o <<123, 67, 34, 233, 34, 34, 98, 34, 125>> ->
             << <<233>>, <<98>> >>
      [] line = ManyPartsLine -> << <<233>>, <<98>> >>
      [] OTHER -> << >>

\* The part texts of the lines from i on that no chunk boundary fell inside.
RECURSIVE WholePartTexts(_, _, _)
WholePartTexts(lines, i, cutLines) ==
    IF i > Len(lines) THEN <<>>
    ELSE (IF i \in cutLines THEN <<>> ELSE PartTexts(lines[i]))
         \o WholePartTexts(lines, i + 1, cutLines)

-----------------------------------------------------------------------------
(* Properties of the read loop *)

\* C17: the read loop ends only in the step in which the stream reports
\* completion, after every byte was delivered; no line stops it early, so
\* the returned text holds the fragments of every whole line, those after a
\* [DONE] line or a control event included; and when the stream delivers its
\* chunks and reports completion, the call returns.
C17_LoopEndsOnCompletion ==
    /\ [][(pc # "returned" /\ pc' = "returned") =>
            (pc = "reading" /\ pos = Len(wire) /\ result' = fullText)]_vars
    /\ [](pc = "returned" =>
            /\ pos = Len(wire)
            /\ result = Concat(WholeFragments(fn, script, 1, cut)))
    /\ (pc = "reading" ~> pc = "returned")

C17_Witness ==
    /\ pc = "returned"
    /\ \E i, j \in 1..Len(script) :
         /\ i < j
         /\ script[i] \in {DataPrefix \o DoneSentinel, DataPrefix \o <<123, 80, 125>>}
         /\ i \notin cut
         /\ j \notin cut
         /\ LineFragments(fn, script[j]) # <<>>
         /\ result = Concat(LineFragments(fn, script[j]))

-----------------------------------------------------------------------------
(* Properties of concurrent calls *)

\* C15: with two calls in flight, under every interleaving of their chunks,
\* each call's onUpdate arguments are the cumulative texts of its own deltas,
\* its callback's fullResponse is its own last argument, and its returned
\* text is that of its own whole lines: what it produces running alone.
C15_CallsDoNotInterfere ==
    \A c \in Callers :
        LET call == calls[c]
        IN  /\ Len(call.updates) = Len(call.deltas)
            /\ \A k \in 1..Len(call.updates) :
                 call.updates[k] = Concat(SubSeq(call.deltas, 1, k))
            /\ call.fullResponse = Concat(call.deltas)
            /\ call.pc = "returned" =>
                 /\ call.result = Concat(call.deltas)
                 /\ call.result =
                      Concat(WholeFragments(call.fn, call.script, 1, call.cut))

C15_Witness ==
    /\ calls[1].pc = "reading"
    /\ calls[1].pos < Len(calls[1].wire)
    /\ Len(calls[1].updates) = 1
    /\ calls[2].pc = "returned"
    /\ Len(calls[2].updates) = 2
    /\ calls[2].result = calls[2].updates[2]

-----------------------------------------------------------------------------
(* Properties of the settings *)

\* An item is stored, with a value that is not empty.
IsStored(store, key) == store[key] \notin {"null", ""}

\* C21: getAISettings returns the provider gemini when exactly that is
\* stored and anthropic otherwise, with the key stored for that provider (or
\* the empty key) and the model stored for it (or the provider's default
\* model); nothing stored for the other provider is returned.
C21_SettingsOfSelectedProvider ==
    apc = "got" =>
        LET gemini == localStorage["ai_provider"] = "gemini"
            keyItem == IF gemini THEN "gemini_api_key" ELSE "anthropic_api_key"
            modelItem == IF gemini THEN "gemini_model" ELSE "anthropic_model"
        IN  /\ outcome.provider = (IF gemini THEN "gemini" ELSE "anthropic")
            /\ outcome.apiKey =
                 (IF IsStored(localStorage, keyItem) THEN localStorage[keyItem]
                  ELSE "")
            /\ outcome.model =
                 (IF IsStored(localStorage, modelItem) THEN localStorage[modelItem]
                  ELSE IF gemini THEN "gemini-flash-latest"
                  ELSE "claude-3-5-sonnet-20241022")

C21_Witness ==
    /\ apc = "got"
    /\ localStorage["ai_provider"] = "openai"
    /\ localStorage["anthropic_api_key"] = "key1"
    /\ localStorage["anthropic_model"] = ""
    /\ localStorage["gemini_api_key"] = "key2"
    /\ localStorage["gemini_model"] = "model2"
    /\ outcome = [provider |-> "anthropic", apiKey |-> "key1",
                  model |-> "claude-3-5-sonnet-20241022"]

-----------------------------------------------------------------------------
(* Properties of parseCategories on arrays of any elements *)

\* The arrays with an element that is null:  [n]   [{i0}n]
NullArrayTexts ==
    { [text |-> <<91, 110, 93>>, length |-> 1],
      [text |-> <<91, 123, 105, 48, 125, 110, 93>>, length |-> 2] }

\* C23: on a reply that is a JSON array, parseCategories returns one record
\* per element, in array order (each with its element's index), whatever
\* the elements are, null included.
C23_OneRecordPerElement ==
    apc = "returned" =>
        /\ \A r \in ReplyTable :
             fullResponse = r.text =>
                 /\ Len(categories) = Len(r.objs)
                 /\ \A k \in 1..Len(r.objs) : categories[k].index = r.objs[k].index
        /\ \A a \in NullArrayTexts :
             fullResponse = a.text => Len(categories) = a.length

-----------------------------------------------------------------------------
(* Properties of the readers on chunks of whole lines *)

\* C25: when no chunk boundary falls inside a line (the last line ended by
\* a newline or by the end of the stream) and every payload is JSON, each
\* reader returns the concatenation, in order, of the non-empty fragments
\* of all its lines, and has passed each cumulative text to onUpdate.
C25_WholeLinesAllFragments ==
    (/\ pc = "returned"
     /\ cut = {}
     /\ \A i \in 1..Len(script) : ValidDataLine(script[i])) =>
        /\ result = Concat(AllFragments(fn, script))
        /\ Len(updates) = Len(AllFragments(fn, script))

C25_Witness ==
    /\ pc = "returned"
    /\ cut = {}
    /\ Len(script) = 2
    /\ wire[Len(wire)] # LF
    /\ Len(updates) >= 2
    /\ result = Concat(AllFragments(fn, script))

-----------------------------------------------------------------------------
(* Non-interference of the prompt *)

\* The names of the pairs of the URL's query string, as written.
ParamNames(url) == QueryKeys(After(Before(url, 35), 63))

\* Two requests agree on the method, the URL up to the first '?', the
\* sequence of query-parameter names and the sequence of header names.
Agree(r1, r2) ==
    /\ r1.method = r2.method
    /\ Before(r1.url, 63) = Before(r2.url, 63)
    /\ ParamNames(r1.url) = ParamNames(r2.url)
    /\ r1.headers = r2.headers

\* The batches that differ from batch in the last request's URL, header
\* values and body.
Variants(batch) ==
    { [batch EXCEPT ![Len(batch)] =
          RequestWith(batch[Len(batch)].headers, u, v)] : u \in Urls, v \in Secrets }

\* C24: a batch that agrees with the given one, request by request, on
\* method, URL up to the first '?', query-parameter names and header names
\* gives the same prompt: header values, parameter values and bodies have
\* no influence on it.
C24_PromptNonInterference ==
    apc = "built" =>
        \A other \in Variants(requests) :
            (\A k \in 1..Len(requests) : Agree(requests[k], other[k]))
                => buildAnalysisPrompt(other) = prompt

C24_Witness ==
    /\ apc = "built"
    /\ \E other \in Variants(requests) :
         /\ \A k \in 1..Len(requests) : Agree(requests[k], other[k])
         /\ other[Len(other)].url # requests[Len(requests)].url
         /\ other[Len(other)].postData # requests[Len(requests)].postData
         /\ requests[Len(requests)].headers # <<>>
         /\ buildAnalysisPrompt(other) = prompt

-----------------------------------------------------------------------------
(* C22: the category cache is last-writer-wins with no merge. After any    *)
(* sequence of cacheCategories and clearCategoryCache calls,               *)
(* loadCachedCategories returns exactly the mapping of the most recent     *)
(* successful cacheCategories since the last clear, with no entry that     *)
(* only an earlier write had, and the empty mapping when there is none.    *)

C22_LastWriterWins ==
    apc = "loaded" =>
        /\ outcome = written.map
        /\ DOMAIN outcome \cap written.dropped = {}

\* A load that follows two stored writes, the later of which lacks a key of
\* the earlier one, and returns the later mapping.
C22_Witness ==
    /\ apc = "loaded"
    /\ written.dropped # {}
    /\ written.map # <<>>
    /\ outcome = written.map

====
